---- MODULE Spec2Model ----
(***************************************************************************)
(* PBR map derivation (src/App.tsx, src/services/geminiService.ts).        *)
(*                                                                         *)
(* The five generators compute with JavaScript numbers (IEEE-754 binary64) *)
(* and store into the Uint8ClampedArray of a canvas ImageData.  The        *)
(* arithmetic is modelled bit-exactly: a number is sign * mantissa * 2^e   *)
(* with a 53-bit mantissa held as little-endian limbs of 15 bits, and      *)
(* every operation rounds to nearest, ties to even.  Values stay far from  *)
(* the subnormal and overflow ranges; the sign of zero is not kept (no     *)
(* stored byte depends on it).                                             *)
(***************************************************************************)
EXTENDS Integers, Sequences, FiniteSets, TLC

(***************************************************************************)
(* Unbounded naturals (B...) are little-endian sequences of limbs below    *)
(* LimbBase without high zero limbs; zero is the empty sequence.           *)
(* binary64 numbers (F...) are records [sg, m, e] for sg * m * 2^e, with   *)
(* m = 0 or 2^52 <= m < 2^53.                                              *)
(*                                                                         *)
(* The operations that use each other are the cases of one recursive       *)
(* operator, Calc, applied to <<operation, arguments>>; the operators      *)
(* named before it are its entry points.                                   *)
(***************************************************************************)
LimbBits == 10 + 5
LimbBase == 2^LimbBits
MantBits == 50 + 3

\* limb i of a, 0 beyond its length
Limb(a, i) == IF 1 <= i /\ i <= Len(a) THEN a[i] ELSE 0

MaxLen(a, b) == IF Len(a) > Len(b) THEN Len(a) ELSE Len(b)

\* the limbs a function on 1..n gives, as a sequence
Limbs(f) == <<>> \o f

Zeros(n) == Limbs([i \in 1..n |-> 0])

\* the carry into limb i of a + b: a limb below overflows and every limb between
\* passes the carry on
Carry(a, b, i) ==
  \E j \in 1..(i - 1) :
     /\ Limb(a, j) + Limb(b, j) >= LimbBase
     /\ \A k \in (j + 1)..(i - 1) : Limb(a, k) + Limb(b, k) = LimbBase - 1

\* the borrow from limb i of a - b
Borrow(a, b, i) ==
  \E j \in 1..(i - 1) :
     /\ Limb(a, j) < Limb(b, j)
     /\ \A k \in (j + 1)..(i - 1) : Limb(a, k) = Limb(b, k)

\* the highest nonzero limb of a, 0 when there is none
TopLimb(a) ==
  CHOOSE i \in 0..Len(a) : (i = 0 \/ a[i] # 0) /\ \A j \in (i + 1)..Len(a) : a[j] = 0

\* the highest limb where a and b of one length differ, 0 when a = b
TopDiff(a, b) ==
  CHOOSE i \in 0..Len(a) :
     (i = 0 \/ a[i] # b[i]) /\ \A j \in (i + 1)..Len(a) : a[j] = b[j]

\* a without its high zero limbs
BNorm(a) == SubSeq(a, 1, TopLimb(a))

BCmpAt(a, b, i) == IF i = 0 THEN 0 ELSE IF a[i] > b[i] THEN 1 ELSE -1

\* -1, 0, 1 as a < b, a = b, a > b
BCmp(a, b) ==
  IF Len(a) > Len(b) THEN 1
  ELSE IF Len(a) < Len(b) THEN -1
  ELSE BCmpAt(a, b, TopDiff(a, b))

\* the number of bits of n < LimbBase
IntBits(n) == CHOOSE k \in 0..LimbBits : n < 2^k /\ (k = 0 \/ n >= 2^(k - 1))

BitLen(a) == IF a = <<>> THEN 0 ELSE LimbBits * (Len(a) - 1) + IntBits(a[Len(a)])

\* 0 <= n < 2 * LimbBase^2
BFromInt(n) ==
  BNorm(<<n % LimbBase, (n \div LimbBase) % LimbBase, n \div (LimbBase * LimbBase)>>)

\* a < LimbBase^2
BToInt(a) == Limb(a, 1) + LimbBase * Limb(a, 2)

\* the lowest nonzero limb of a # 0, and the number of its low zero bits
LowLimb(a) == CHOOSE i \in 1..Len(a) : a[i] # 0 /\ \A j \in 1..(i - 1) : a[j] = 0
LowBits(n) == CHOOSE k \in 0..LimbBits : n % 2^(k + 1) # 0 /\ n % 2^k = 0

\* the number of low zero bits of a # 0
TrailingZeros(a) == LimbBits * (LowLimb(a) - 1) + LowBits(a[LowLimb(a)])

\* LimbBase^k mod d for k in 0..4
PowMod(k, d) ==
  CASE k = 0 -> 1 % d
    [] k = 1 -> LimbBase % d
    [] k = 2 -> ((LimbBase % d) * (LimbBase % d)) % d
    [] k = 3 -> ((((LimbBase % d) * (LimbBase % d)) % d) * (LimbBase % d)) % d
    [] k = 4 -> ((((LimbBase % d) * (LimbBase % d)) % d)
                   * (((LimbBase % d) * (LimbBase % d)) % d)) % d

\* limb i + k of a, as it counts in the limbs from i on modulo d
TermMod(a, i, k, d) == ((Limb(a, i + k) % d) * PowMod(k, d)) % d

\* the limbs of a from i on, modulo d, for a of at most five limbs and d < LimbBase
RemFrom(a, i, d) ==
  (TermMod(a, i, 0, d) + TermMod(a, i, 1, d) + TermMod(a, i, 2, d)
     + TermMod(a, i, 3, d) + TermMod(a, i, 4, d)) % d

\* quotient and remainder of a by d, for a of at most five limbs and 0 < d < LimbBase:
\* each quotient limb from the remainder of the limbs above it
BDivSmall(a, d) ==
  [q |-> BNorm(Limbs([i \in 1..Len(a) |-> (RemFrom(a, i + 1, d) * LimbBase + a[i]) \div d])),
   r |-> BFromInt(RemFrom(a, 1, d))]

\* the even number of low bits to leave out of a number of L bits for 15 or 16 to stay
SqrtShift(L) == IF L <= 16 THEN 0 ELSE 2 * ((L - 15) \div 2)

\* the least r with r * r >= n, for n in 1..65536
CeilSqrt(n) == CHOOSE r \in 1..256 : r * r >= n /\ (r - 1) * (r - 1) < n

Min2(a, b) == IF a < b THEN a ELSE b

\* the quotient limb of R by D estimated from their top limbs
QuotEstimate(R, D) ==
  Min2(LimbBase - 1,
       (Limb(R, Len(D) + 1) * LimbBase + R[Len(D)]) \div D[Len(D)])

FZero == [sg |-> 1, m |-> <<>>, e |-> 0]

FNeg(x) == IF x.m = <<>> THEN x ELSE [x EXCEPT !.sg = -x.sg]

RECURSIVE Calc(_)

BAdd(a, b) == Calc(<<"BAdd", a, b>>)
\* a - b for a >= b
BSub(a, b) == Calc(<<"BSub", a, b>>)
\* a * d for 0 <= d < LimbBase
BMulSmall(a, d) == Calc(<<"BMulSmall", a, d>>)
\* a * b for b of at most four limbs
BMul(a, b) == Calc(<<"BMul", a, b>>)
\* a * 2^s
BShl(a, s) == Calc(<<"BShl", a, s>>)
\* floor(a / 2^s)
BShr(a, s) == Calc(<<"BShr", a, s>>)
QuotLimb(R, D, qhat) == Calc(<<"QuotLimb", R, D, qhat>>)
\* the quotient limb floor(R / D) for R < D * LimbBase
QuotDigit(R, D) == IF Len(R) < Len(D) THEN 0 ELSE QuotLimb(R, D, QuotEstimate(R, D))
\* the long division of N by D from limb i down, R the remainder and Q the
\* quotient limbs of the limbs above i
BDivLimbs(N, D, i, R, Q) == Calc(<<"BDivLimbs", N, D, i, R, Q>>)
\* quotient and remainder of N by D, D # 0 (schoolbook long division on limbs)
BDivMod(N, D) == Calc(<<"BDivMod", N, D>>)
\* Newton's step from the estimate r of sqrt(M)
SqrtStep(M, r) == BShr(BAdd(r, BDivMod(M, r).q), 1)
\* Newton's iteration for floor(sqrt(M)) from an estimate r above it
SqrtNewton(M, r) == Calc(<<"SqrtNewton", M, r, SqrtStep(M, r)>>)
\* floor(sqrt(M))
BSqrt(M) == Calc(<<"BSqrt", M>>)
\* with a sticky bit appended: 2 * q, plus 1 when inexact
BSticky(q, inexact) == Calc(<<"BSticky", q, inexact>>)

\* sg * M * 2^e rounded to the nearest binary64, ties to even
FRound(sg, M, e) == Calc(<<"FRound", sg, M, e>>)
FromInt(n) == Calc(<<"FromInt", n>>)
\* -1, 0, 1 as x < y, x = y, x > y
FCmp(x, y) == Calc(<<"FCmp", x, y>>)
FMul(x, y) == Calc(<<"FMul", x, y>>)
FAdd(x, y) == Calc(<<"FAdd", x, y>>)
FSub(x, y) == Calc(<<"FSub", x, y>>)
\* x / y, y # 0
FDiv(x, y) == Calc(<<"FDiv", x, y>>)
\* the terms added up from left to right, from 0
FSum(terms) == Calc(<<"FSum", terms, 1, FZero>>)
\* Math.sqrt(x), x >= 0
FSqrt(x) == Calc(<<"FSqrt", x>>)
FMin(x, y) == Calc(<<"FMin", x, y>>)
FMax(x, y) == Calc(<<"FMax", x, y>>)
\* a store into a Uint8ClampedArray element: clamp to [0, 255], then round to the
\* nearest integer, ties to even
ToUint8Clamp(x) == Calc(<<"ToUint8Clamp", x>>)

Calc(w) ==
  CASE w[1] = "BAdd" ->
         BNorm(Limbs([i \in 1..(MaxLen(w[2], w[3]) + 1) |->
                        (Limb(w[2], i) + Limb(w[3], i)
                           + IF Carry(w[2], w[3], i) THEN 1 ELSE 0) % LimbBase]))
    [] w[1] = "BMulSmall" ->
         \* the low and the high halves of the limb products, the high ones one limb up
         BAdd(Limbs([i \in 1..Len(w[2]) |-> (w[2][i] * w[3]) % LimbBase]),
              <<0>> \o [i \in 1..Len(w[2]) |-> (w[2][i] * w[3]) \div LimbBase])
    [] w[1] = "BShl" ->
         IF w[2] = <<>> THEN <<>>
         ELSE Zeros(w[3] \div LimbBits) \o BMulSmall(w[2], 2^(w[3] % LimbBits))
    [] w[1] = "BShr" ->
         IF Len(w[2]) <= w[3] \div LimbBits THEN <<>>
         ELSE Calc(<<"BShrBits", SubSeq(w[2], (w[3] \div LimbBits) + 1, Len(w[2])),
                     w[3] % LimbBits>>)
    [] w[1] = "BShrBits" ->
         \* each limb without its w[3] low bits, above them the low bits of the next
         BNorm(Limbs([i \in 1..Len(w[2]) |->
                        (w[2][i] \div 2^w[3])
                          + (Limb(w[2], i + 1) % 2^w[3]) * 2^(LimbBits - w[3])]))
    [] w[1] = "BSub" ->
         BNorm(Limbs([i \in 1..Len(w[2]) |->
                        (w[2][i] - Limb(w[3], i)
                           - IF Borrow(w[2], w[3], i) THEN 1 ELSE 0) % LimbBase]))
    [] w[1] = "FRound" ->
         IF w[3] = <<>> THEN FZero
         ELSE IF BitLen(w[3]) <= MantBits
           THEN [sg |-> w[2], m |-> BShl(w[3], MantBits - BitLen(w[3])),
                 e |-> w[4] - (MantBits - BitLen(w[3]))]
           ELSE Calc(<<"FRoundCut", w[2], w[3], w[4], BitLen(w[3]) - MantBits,
                       BShr(w[3], BitLen(w[3]) - MantBits)>>)
    [] w[1] = "FRoundCut" ->
         \* w[6] is w[3] without its w[5] low bits
         Calc(<<"FPack", w[2],
                Calc(<<"FRoundUp", w[6],
                       BCmp(BSub(w[3], BShl(w[6], w[5])), BShl(<<1>>, w[5] - 1))>>),
                w[4] + w[5]>>)
    [] w[1] = "FRoundUp" ->
         \* w[3] compares the dropped bits with one half: to nearest, ties to even
         IF w[3] > 0 \/ (w[3] = 0 /\ w[2][1] % 2 = 1) THEN BAdd(w[2], <<1>>) ELSE w[2]
    [] w[1] = "FPack" ->
         IF BitLen(w[3]) > MantBits
           THEN [sg |-> w[2], m |-> BShr(w[3], 1), e |-> w[4] + 1]
           ELSE [sg |-> w[2], m |-> w[3], e |-> w[4]]
    [] w[1] = "FromInt" ->
         IF w[2] < 0 THEN FRound(-1, BFromInt(-w[2]), 0) ELSE FRound(1, BFromInt(w[2]), 0)
    [] w[1] = "FCmp" ->
         IF w[2].m = <<>> /\ w[3].m = <<>> THEN 0
         ELSE IF w[2].m = <<>> THEN -w[3].sg
         ELSE IF w[3].m = <<>> THEN w[2].sg
         ELSE IF w[2].sg # w[3].sg THEN w[2].sg
         ELSE IF w[2].e > w[3].e THEN w[2].sg
         ELSE IF w[2].e < w[3].e THEN -w[2].sg
         ELSE w[2].sg * BCmp(w[2].m, w[3].m)
    [] w[1] = "FMul" ->
         IF w[2].m = <<>> \/ w[3].m = <<>> THEN FZero
         ELSE FRound(w[2].sg * w[3].sg, BMul(w[2].m, w[3].m), w[2].e + w[3].e)
    [] w[1] = "BMul" ->
         BAdd(BAdd(BMulSmall(w[2], Limb(w[3], 1)),
                   <<0>> \o BMulSmall(w[2], Limb(w[3], 2))),
              <<0, 0>> \o BAdd(BMulSmall(w[2], Limb(w[3], 3)),
                               <<0>> \o BMulSmall(w[2], Limb(w[3], 4))))
    [] w[1] = "FSub" -> FAdd(w[2], FNeg(w[3]))
    [] w[1] = "FAdd" ->
         IF w[2].m = <<>> THEN w[3]
         ELSE IF w[3].m = <<>> THEN w[2]
         ELSE IF w[2].e < w[3].e
           THEN Calc(<<"FAddAligned", w[2].sg, w[2].m, w[3].sg,
                       BShl(w[3].m, w[3].e - w[2].e), w[2].e>>)
           ELSE Calc(<<"FAddAligned", w[2].sg, BShl(w[2].m, w[2].e - w[3].e),
                       w[3].sg, w[3].m, w[3].e>>)
    [] w[1] = "FAddAligned" ->
         \* w[2] * w[3] * 2^w[6] + w[4] * w[5] * 2^w[6]
         IF w[2] = w[4] THEN FRound(w[2], BAdd(w[3], w[5]), w[6])
         ELSE IF BCmp(w[3], w[5]) >= 0 THEN FRound(w[2], BSub(w[3], w[5]), w[6])
         ELSE FRound(w[4], BSub(w[5], w[3]), w[6])
    [] w[1] = "FDiv" ->
         \* the quotient to 55 bits or more and a sticky bit, then rounded
         IF w[2].m = <<>> THEN FZero
         ELSE Calc(<<"FDivOf", Calc(<<"FDivMod", w[2].m, w[3].m, TrailingZeros(w[3].m)>>),
                     w[2].sg * w[3].sg, w[2].e - w[3].e - (MantBits + 3) - 1>>)
    [] w[1] = "FDivMod" ->
         \* w[2] * 2^56 by w[3], which has w[4] low zero bits: when the rest of w[3]
         \* is one limb, w[2] * 2^(56 - w[4]) by that limb
         IF MantBits - w[4] <= LimbBits
           THEN BDivSmall(BShl(w[2], MantBits + 3 - w[4]), BToInt(BShr(w[3], w[4])))
           ELSE BDivMod(BShl(w[2], MantBits + 3), w[3])
    [] w[1] = "FDivOf" ->
         FRound(w[3], BSticky(w[2].q, w[2].r # <<>>), w[4])
    [] w[1] = "FSum" ->
         \* w[4] the sum of the terms before w[3]
         IF w[3] > Len(w[2]) THEN w[4]
         ELSE Calc(<<"FSum", w[2], w[3] + 1, FAdd(w[4], w[2][w[3]])>>)
    [] w[1] = "BSticky" -> BAdd(BMulSmall(w[2], 2), IF w[3] THEN <<1>> ELSE <<>>)
    [] w[1] = "BDivMod" ->
         \* both shifted for the top limb of the divisor to be LimbBase / 2 or more
         Calc(<<"BDivShifted", BShl(w[2], LimbBits - IntBits(w[3][Len(w[3])])),
                BShl(w[3], LimbBits - IntBits(w[3][Len(w[3])])),
                LimbBits - IntBits(w[3][Len(w[3])])>>)
    [] w[1] = "BDivShifted" ->
         IF Len(w[2]) < Len(w[3]) THEN [q |-> <<>>, r |-> BShr(w[2], w[4])]
         ELSE Calc(<<"BDivUnshift",
                     BDivLimbs(w[2], w[3], Len(w[2]) - Len(w[3]) + 1,
                               SubSeq(w[2], Len(w[2]) - Len(w[3]) + 2, Len(w[2])), <<>>),
                     w[4]>>)
    [] w[1] = "BDivUnshift" -> [q |-> BNorm(w[2].q), r |-> BShr(w[2].r, w[3])]
    [] w[1] = "BDivLimbs" ->
         IF w[4] = 0 THEN [q |-> w[6], r |-> w[5]]
         ELSE Calc(<<"BDivDigit", w[2], w[3], w[4], BNorm(<<w[2][w[4]]>> \o w[5]), w[6],
                     QuotDigit(BNorm(<<w[2][w[4]]>> \o w[5]), w[3])>>)
    [] w[1] = "BDivDigit" ->
         \* w[5] the remainder with limb w[4], w[7] its quotient limb
         BDivLimbs(w[2], w[3], w[4] - 1, BSub(w[5], BMulSmall(w[3], w[7])),
                   <<w[7]>> \o w[6])
    [] w[1] = "QuotLimb" ->
         \* floor(w[2] / w[3]) for w[2] < w[3] * LimbBase, the top limb of w[3] at
         \* least LimbBase / 2: the estimate w[4] is at most 2 too large
         IF BCmp(BMulSmall(w[3], w[4]), w[2]) > 0
           THEN QuotLimb(w[2], w[3], w[4] - 1)
           ELSE w[4]
    [] w[1] = "FMin" -> IF FCmp(w[2], w[3]) <= 0 THEN w[2] ELSE w[3]
    [] w[1] = "FMax" -> IF FCmp(w[2], w[3]) >= 0 THEN w[2] ELSE w[3]
    [] w[1] = "ToUint8Clamp" ->
         IF FCmp(w[2], FZero) <= 0 THEN 0
         ELSE IF FCmp(w[2], FromInt(255)) >= 0 THEN 255
         ELSE Calc(<<"ToUint8Frac", w[2], BShr(w[2].m, -w[2].e)>>)
    [] w[1] = "ToUint8Frac" ->
         \* w[3] the integer part of w[2]; the fraction compared with one half
         Calc(<<"RoundHalfEven", BToInt(w[3]),
                BCmp(BSub(w[2].m, BShl(w[3], -w[2].e)), BShl(<<1>>, (-w[2].e) - 1))>>)
    [] w[1] = "RoundHalfEven" ->
         IF w[3] > 0 THEN w[2] + 1
         ELSE IF w[3] < 0 THEN w[2]
         ELSE IF w[2] % 2 = 0 THEN w[2] ELSE w[2] + 1
    [] w[1] = "FSqrt" ->
         \* the root of m * 2^k for an even exponent e - k, to 54 bits and a sticky bit
         IF w[2].m = <<>> THEN FZero
         ELSE IF (w[2].e % 2) = 0
           THEN Calc(<<"FSqrtOf", BShl(w[2].m, MantBits + 3),
                       BSqrt(BShl(w[2].m, MantBits + 3)),
                       (w[2].e - (MantBits + 3)) \div 2>>)
           ELSE Calc(<<"FSqrtOf", BShl(w[2].m, MantBits + 2),
                       BSqrt(BShl(w[2].m, MantBits + 2)),
                       (w[2].e - (MantBits + 2)) \div 2>>)
    [] w[1] = "FSqrtOf" ->
         FRound(1, BSticky(w[3], BCmp(BMul(w[3], w[3]), w[2]) # 0), w[4] - 1)
    [] w[1] = "BSqrt" ->
         IF w[2] = <<>> THEN <<>>
         ELSE Calc(<<"SqrtFrom", w[2], SqrtShift(BitLen(w[2]))>>)
    [] w[1] = "SqrtFrom" ->
         \* the first estimate from the 15 or 16 high bits of w[2], rounded up
         SqrtNewton(w[2], BShl(BFromInt(CeilSqrt(BToInt(BShr(w[2], w[3])) + 1)),
                               w[3] \div 2))
    [] w[1] = "SqrtNewton" ->
         \* w[4] the step from w[3]: the first estimate that does not decrease is the root
         IF BCmp(w[4], w[3]) >= 0 THEN w[3] ELSE SqrtNewton(w[2], w[4])

\* the double a decimal literal num/den denotes (0.5, 1.2, 2.5, 765.0, ...)
Lit(num, den) == FDiv(FromInt(num), FromInt(den))

(***************************************************************************)
(* Images.  A decoded image (what getImageData returns for the drawn       *)
(* albedo) is [width, height, data], data the pixels <<R, G, B, A>> in     *)
(* row-major order: pixel (x, y) is data[y * width + x + 1], the four      *)
(* bytes at (y * width + x) * 4 of the ImageData array.  The albedo is     *)
(* opaque (A = 255), so the canvas round trip keeps the stored bytes.      *)
(***************************************************************************)
Opaque == 255

\* the number literals of the generators
F1 == FromInt(1)
F3 == FromInt(3)
F9 == FromInt(9)
F100 == FromInt(100)
F255 == FromInt(255)
F765 == FromInt(765)
Half == Lit(5, 10)
RoughContrast == Lit(15, 10)
HeightContrast == Lit(12, 10)

ChannelSum(p) == p[1] + p[2] + p[3]

\* const avg = (data[i] + data[i + 1] + data[i + 2]) / 3
PixelAvg(p) == FDiv(FromInt(ChannelSum(p)), F3)

\* a variant of RoughnessValue that does not invert the luminance
RoughnessValueUninverted(p, multiplier) ==
  FMin(F255, FMax(FZero,
    FMul(FAdd(FMul(FSub(FDiv(FMul(PixelAvg(p), multiplier), F255), Half),
                   RoughContrast), Half), F255)))

\* generateRoughnessMap, the loop body: the number handed to the store
RoughnessValue(p, multiplier) ==
  LET avg == PixelAvg(p)
      val == FMul(FSub(F255, avg), multiplier)
      boosted == FMul(FAdd(FMul(FSub(FDiv(val, F255), Half),
                                RoughContrast), Half), F255)
  IN FMin(F255, FMax(FZero, boosted))

\* data[i] = data[i + 1] = data[i + 2] = value; data[i + 3] is left as drawn
GrayPixel(v, alpha) == <<v, v, v, alpha>>

\* a variant of RoughnessPixel that stores the value in the red channel only
RoughnessPixelRedOnly(p, multiplier) ==
  <<ToUint8Clamp(RoughnessValue(p, multiplier)), p[2], p[3], p[4]>>

RoughnessPixel(p, multiplier) ==
  GrayPixel(ToUint8Clamp(RoughnessValue(p, multiplier)), p[4])

generateRoughnessMap(image, multiplier) ==
  [width |-> image.width, height |-> image.height,
   data |-> [i \in 1..Len(image.data) |-> RoughnessPixel(image.data[i], multiplier)]]

\* a variant of AOValue with the threshold at 50 instead of 100
AOValueLowThreshold(p) ==
  IF FCmp(PixelAvg(p), FromInt(50)) < 0
    THEN FMul(FDiv(PixelAvg(p), F100), F255)
    ELSE F255

\* generateAOMap, the loop body
AOValue(p) ==
  LET avg == PixelAvg(p)
  IN IF FCmp(avg, F100) < 0
       THEN FMul(FDiv(avg, F100), F255)
       ELSE F255

AOPixel(p) == GrayPixel(ToUint8Clamp(AOValue(p)), p[4])

generateAOMap(image) ==
  [width |-> image.width, height |-> image.height,
   data |-> [i \in 1..Len(image.data) |-> AOPixel(image.data[i])]]

\* a variant of HeightValue without the contrast boost
HeightValuePlain(p) == FMin(F255, FMax(FZero, PixelAvg(p)))

\* generateHeightMap, the loop body
HeightValue(p) ==
  LET avg == PixelAvg(p)
      val == FMul(FAdd(FMul(FSub(FDiv(avg, F255), Half),
                            HeightContrast), Half), F255)
  IN FMin(F255, FMax(FZero, val))

HeightPixel(p) == GrayPixel(ToUint8Clamp(HeightValue(p)), p[4])

\* a variant of generateHeightMap with the canvas sized height x width
generateHeightMapTransposed(image) ==
  [width |-> image.height, height |-> image.width,
   data |-> [i \in 1..Len(image.data) |-> HeightPixel(image.data[i])]]

generateHeightMap(image) ==
  [width |-> image.width, height |-> image.height,
   data |-> [i \in 1..Len(image.data) |-> HeightPixel(image.data[i])]]

\* a variant of MetalnessPixel that fills mid-gray for a non-metal
MetalnessPixelGray(isMetal) == GrayPixel(IF isMetal THEN 255 ELSE 128, Opaque)

\* generateMetalnessMap: the image is not drawn; the canvas takes its size and is
\* filled with rgb(val, val, val)
MetalnessPixel(isMetal) == GrayPixel(IF isMetal THEN 255 ELSE 0, Opaque)

generateMetalnessMap(image, isMetal) ==
  [width |-> image.width, height |-> image.height,
   data |-> [i \in 1..(image.width * image.height) |-> MetalnessPixel(isMetal)]]

(***************************************************************************)
(* generateNormalMap                                                       *)
(***************************************************************************)
\* a variant of ClampCoord that wraps a coordinate outside the image around to the
\* opposite edge
ClampCoordWrapped(v, size) == v % size

ClampCoord(v, size) ==
  LET lo == IF size - 1 < v THEN size - 1 ELSE v   \* Math.min(size - 1, v)
  IN IF 0 > lo THEN 0 ELSE lo                       \* Math.max(0, ...)

\* the coordinates getSmoothHeight(x, y) reads, in the order of its two loops
SmoothSamples(image, x, y) ==
  [k \in 1..9 |->
     LET ox == ((k - 1) \div 3) - 1
         oy == ((k - 1) % 3) - 1
     IN [nx |-> ClampCoord(x + ox, image.width),
         ny |-> ClampCoord(y + oy, image.height)]]

\* (data[px] + data[px + 1] + data[px + 2]) / 765.0 for the sample at c
SampleHeight(image, c) ==
  FDiv(FromInt(ChannelSum(image.data[c.nx + c.ny * image.width + 1])), F765)

\* the terms total += ... adds, in the order of the loops
SmoothTerms(image, samples) ==
  Limbs([k \in 1..Len(samples) |-> SampleHeight(image, samples[k])])

\* a variant of getSmoothHeight that skips the neighbours outside the image instead
\* of clamping their coordinates (and still divides by 9)
getSmoothHeightUnclamped(image, x, y) ==
  FDiv(FSum(SmoothTerms(image,
         SelectSeq([k \in 1..9 |-> [nx |-> x + ((k - 1) \div 3) - 1,
                                    ny |-> y + ((k - 1) % 3) - 1]],
                   LAMBDA c : /\ c.nx \in 0..(image.width - 1)
                              /\ c.ny \in 0..(image.height - 1)))), F9)

\* return total / count
getSmoothHeight(image, x, y) ==
  FDiv(FSum(SmoothTerms(image, SmoothSamples(image, x, y))), F9)

\* ((v / len) * 0.5 + 0.5) * 255, the number handed to the store
EncodeNormal(v, len) ==
  FMul(FAdd(FMul(FDiv(v, len), Half), Half), F255)

NormalLength(dx, dy, dz) ==
  FSqrt(FAdd(FAdd(FMul(dx, dx), FMul(dy, dy)), FMul(dz, dz)))

\* dx = (hL - hR) * strength, dy = (hU - hD) * strength, dz = 1.0
NormalVector(image, x, y, strength) ==
  [dx |-> FMul(FSub(getSmoothHeight(image, x - 1, y),
                    getSmoothHeight(image, x + 1, y)), strength),
   dy |-> FMul(FSub(getSmoothHeight(image, x, y - 1),
                    getSmoothHeight(image, x, y + 1)), strength),
   dz |-> F1]

\* the four bytes stored for a vector d of length len
NormalBytes(d, len) ==
  <<ToUint8Clamp(EncodeNormal(d.dx, len)),
    ToUint8Clamp(EncodeNormal(d.dy, len)),
    ToUint8Clamp(EncodeNormal(d.dz, len)),
    Opaque>>

\* a variant of NormalOf that skips the division by the length
NormalOfUnnormalised(d) == NormalBytes(d, F1)

NormalOf(d) == NormalBytes(d, NormalLength(d.dx, d.dy, d.dz))

NormalPixel(image, x, y, strength) == NormalOf(NormalVector(image, x, y, strength))

generateNormalMap(image, strength) ==
  [width |-> image.width, height |-> image.height,
   data |-> [i \in 1..(image.width * image.height) |->
               NormalPixel(image, (i - 1) % image.width, (i - 1) \div image.width,
                           strength)]]

(***************************************************************************)
(* The App component.  Its state is the useState cells the pipeline reads  *)
(* and writes, and the pipeline runs in flight.  A data URL is held as the *)
(* image it encodes.  Each action is one event-loop task together with the *)
(* promise reactions it triggers: a click or a change event, the          *)
(* FileReader's load event, the settlement of a service call, the load or  *)
(* error event of one generator's Image.  The preview shape, the material  *)
(* error event of one generator's Image, the settlement of a call of the   *)
(* platform bridge.  The preview shape, the Tiling and Normal Depth        *)
(* sliders and the download buttons neither read nor write what the        *)
(* pipeline does and are left out; settings keeps the two fields a run     *)
(* writes, in hundredths.  keyTasks holds the position of checkKey and the *)
(* number of handleOpenKeySelector calls suspended at their await.         *)
(***************************************************************************)
VARIABLES img, out, maps, settings, prompt, isGenerating, error, showKeyPrompt, runs,
          keyTasks

genVars == <<img, out>>

appVars == <<maps, settings, prompt, isGenerating, error, showKeyPrompt, runs, keyTasks>>

vars == <<img, out, maps, settings, prompt, isGenerating, error, showKeyPrompt, runs,
          keyTasks>>

\* the number of pipeline runs started in a behaviour
MaxRuns == 2

\* the number of openSelectKey calls pending at a time
MaxSelectors == 1

Null == [null |-> TRUE]
NoOutput == [kind |-> "none"]
NoError == "null"

Generators == {"normal", "roughness", "metalness", "ao", "height"}

\* keyof PBRMaps
MapType == {"albedo"} \cup Generators

\* the prompts of the first presets, each named by its preset, and what the user
\* types into the textarea
PRESETS == <<"Stone Brick", "Rusted Iron">>
TypedPrompts == {""}

\* parseFloat(e.target.value) of the Smoothness slider, in hundredths
SmoothnessValues == {33}

\* what generateBaseTexture resolves with, and the files a user picks: a file that
\* is no image has a data URL no Image can load
GeneratedTextures == {[width |-> 1, height |-> 1, data |-> <<<<30, 60, 200, Opaque>>>>]}
UndecodableFile == [width |-> 0, height |-> 0, data |-> <<>>]
UploadedFiles ==
  {[width |-> 2, height |-> 1,
    data |-> <<<<250, 240, 100, Opaque>>, <<30, 60, 200, Opaque>>>>],
   UndecodableFile}

Decodes(url) == url.width > 0

\* messages of the errors a generateContent call rejects with; "" is an error
\* without a message
ServiceErrors ==
  {"API key was reported as leaked", "403 Forbidden",
   "Requested entity was not found.", ""}

\* err.message?.includes(part)
Includes(message, part) ==
  \/ message = "API key was reported as leaked" /\ part = "leaked"
  \/ message = "403 Forbidden" /\ part = "403"
  \/ message = "Requested entity was not found."
       /\ part = "Requested entity was not found"

KeyBlockedMessage ==
  "API Key Terblokir (Leaked). Silakan buat API Key baru di Google AI Studio!"

\* err.message || fallback
MessageOr(message, fallback) == IF message = "" THEN fallback ELSE message

\* the text of a metadata response: JSON whose fields are <<v>> for a number (in
\* hundredths) and <<>> when absent or not a number, or text JSON.parse rejects
MetadataResponses ==
  {[json |-> TRUE, suggestedRoughness |-> <<90>>, suggestedMetalness |-> <<80>>],
   [json |-> TRUE, suggestedRoughness |-> <<0>>, suggestedMetalness |-> <<>>],
   [json |-> FALSE]}

DefaultMetadata == [suggestedRoughness |-> 60, suggestedMetalness |-> 0]

\* analyzeTextureMetadata, from the response on
ParseMetadata(response) ==
  IF response.json
    THEN [suggestedRoughness |->
            IF Len(response.suggestedRoughness) = 1
              THEN response.suggestedRoughness[1]
              ELSE DefaultMetadata.suggestedRoughness,
          suggestedMetalness |->
            IF Len(response.suggestedMetalness) = 1
              THEN response.suggestedMetalness[1]
              ELSE DefaultMetadata.suggestedMetalness]
    ELSE DefaultMetadata

Metadatas == {ParseMetadata(response) : response \in MetadataResponses}

\* v || fallback on numbers
NumberOr(v, fallback) == IF v = 0 THEN fallback ELSE v

\* the call processAllMaps makes for generator g
CallGenerator(g, albedoUrl, metadata) ==
  CASE g = "normal" -> generateNormalMap(albedoUrl, Lit(25, 10))
    [] g = "roughness" ->
         generateRoughnessMap(albedoUrl,
           FMul(Lit(NumberOr(metadata.suggestedRoughness, 60), 100), Lit(12, 10)))
    [] g = "metalness" ->
         generateMetalnessMap(albedoUrl, NumberOr(metadata.suggestedMetalness, 0) > 50)
    [] g = "ao" -> generateAOMap(albedoUrl)
    [] g = "height" -> generateHeightMap(albedoUrl)

\* the calls' values over the decodable albedos and the metadata of this model
\* (the generators are functions of their arguments)
GeneratorResults ==
  [albedoUrl \in {a \in GeneratedTextures \cup UploadedFiles : Decodes(a)} |->
     [metadata \in Metadatas |->
        [g \in Generators |-> CallGenerator(g, albedoUrl, metadata)]]]

GeneratorResult(g, albedoUrl, metadata) == GeneratorResults[albedoUrl][metadata][g]

IdleRun == [pc |-> "idle"]
Finished(outcome) == [pc |-> "finished", outcome |-> outcome]

HasFreeSlot == \E r \in 1..MaxRuns : runs[r] = IdleRun
FreeSlot == CHOOSE r \in 1..MaxRuns :
              runs[r] = IdleRun /\ \A q \in 1..(r - 1) : runs[q] # IdleRun

\* the effect that calls checkKey has run: the handlers of user events run after it
Mounted == keyTasks.checkKey # "mounted"

\* the state of the first render: the initial values of useState, the effect
\* not yet run
Init ==
  /\ maps = [m \in MapType |-> Null]
  /\ settings = [roughnessIntensity |-> 80, metalnessIntensity |-> 20]
  /\ prompt = PRESETS[1]
  /\ isGenerating = FALSE
  /\ error = NoError
  /\ showKeyPrompt = FALSE
  /\ runs = [r \in 1..MaxRuns |-> IdleRun]
  /\ keyTasks = [checkKey |-> "mounted", selectors |-> 0]
  /\ img = UndecodableFile
  /\ out = NoOutput

\* processAllMaps up to its first await: the metadata call is in flight
StartProcessAllMaps(r, albedoUrl) ==
  /\ isGenerating' = TRUE
  /\ error' = NoError
  /\ runs' = [runs EXCEPT ![r] = [pc |-> "meta", albedo |-> albedoUrl]]

\* the catch and finally blocks of processAllMaps; outcome records for the finished
\* run which await rejected
CatchProcessAllMaps(r, message, outcome) ==
  /\ IF Includes(message, "leaked") \/ Includes(message, "403")
       THEN /\ error' = KeyBlockedMessage
            /\ showKeyPrompt' = TRUE
       ELSE /\ error' = MessageOr(message, "Failed processing high-quality maps.")
            /\ UNCHANGED showKeyPrompt
  /\ isGenerating' = FALSE
  /\ runs' = [runs EXCEPT ![r] = Finished(outcome)]

\* handleGenerate up to its first await, with the prompt p of the render the
\* handler closes over
StartHandleGenerate(p) ==
  IF p = ""
    THEN UNCHANGED <<isGenerating, error, runs>>
    ELSE /\ isGenerating' = TRUE
         /\ error' = NoError
         /\ runs' = [runs EXCEPT ![FreeSlot] = [pc |-> "base", prompt |-> p]]

\* the file input's change event: the reader starts on the picked file
handleFileUpload ==
  /\ Mounted
  /\ HasFreeSlot
  /\ \E file \in UploadedFiles :
       runs' = [runs EXCEPT ![FreeSlot] = [pc |-> "reading", file |-> file]]
  /\ UNCHANGED <<maps, settings, prompt, isGenerating, error, showKeyPrompt>>
  /\ UNCHANGED genVars
  /\ UNCHANGED keyTasks

\* reader.onload
ReaderLoads(r) ==
  /\ runs[r].pc = "reading"
  /\ StartProcessAllMaps(r, runs[r].file)
  /\ UNCHANGED <<maps, settings, prompt, showKeyPrompt>>
  /\ UNCHANGED genVars
  /\ UNCHANGED keyTasks

\* the Generate button, disabled while isGenerating
ClickGenerate ==
  /\ Mounted
  /\ ~isGenerating
  /\ prompt # "" => HasFreeSlot
  /\ StartHandleGenerate(prompt)
  /\ UNCHANGED <<maps, settings, prompt, showKeyPrompt>>
  /\ UNCHANGED genVars
  /\ UNCHANGED keyTasks

\* a preset button: setPrompt(p.prompt); handleGenerate()
ClickPreset(p) ==
  /\ Mounted
  /\ prompt # "" => HasFreeSlot
  /\ prompt' = p
  /\ StartHandleGenerate(prompt)
  /\ UNCHANGED <<maps, settings, showKeyPrompt>>
  /\ UNCHANGED genVars
  /\ UNCHANGED keyTasks

\* the textarea's change event
EditPrompt(p) ==
  /\ Mounted
  /\ prompt' = p
  /\ UNCHANGED <<maps, settings, isGenerating, error, showKeyPrompt, runs>>
  /\ UNCHANGED genVars
  /\ UNCHANGED keyTasks

\* generateBaseTexture resolves with an image part: handleGenerate goes on to
\* processAllMaps
BaseTextureResolves(r) ==
  /\ runs[r].pc = "base"
  /\ \E albedoUrl \in GeneratedTextures : StartProcessAllMaps(r, albedoUrl)
  /\ UNCHANGED <<maps, settings, prompt, showKeyPrompt>>
  /\ UNCHANGED genVars
  /\ UNCHANGED keyTasks

\* generateBaseTexture rejects (the service call fails, or the response holds no
\* image part): the catch block of handleGenerate
BaseTextureRejects(r) ==
  /\ runs[r].pc = "base"
  /\ \E message \in ServiceErrors \cup {"Failed to generate HD texture image."} :
       IF Includes(message, "leaked") \/ Includes(message, "403")
         THEN /\ error' = KeyBlockedMessage
              /\ showKeyPrompt' = TRUE
         ELSE IF Includes(message, "Requested entity was not found")
           THEN /\ showKeyPrompt' = TRUE
                /\ UNCHANGED error
           ELSE /\ error' = MessageOr(message, "Generation failed.")
                /\ UNCHANGED showKeyPrompt
  /\ isGenerating' = FALSE
  /\ runs' = [runs EXCEPT ![r] = Finished("texture failed")]
  /\ UNCHANGED <<maps, settings, prompt>>
  /\ UNCHANGED genVars
  /\ UNCHANGED keyTasks

\* the metadata call resolves: analyzeTextureMetadata returns the parsed fields or
\* the defaults, and processAllMaps calls the five generators, each of which starts
\* loading the albedo.  resolved holds the generators whose promise has resolved,
\* generator g with the value GeneratorResult(g, albedo, metadata)
MetadataResolves(r) ==
  /\ runs[r].pc = "meta"
  /\ \E response \in MetadataResponses :
       runs' = [runs EXCEPT ![r] =
                  [pc |-> "gens", albedo |-> runs[r].albedo,
                   metadata |-> ParseMetadata(response),
                   resolved |-> {}]]
  /\ UNCHANGED <<maps, settings, prompt, isGenerating, error, showKeyPrompt>>
  /\ UNCHANGED genVars
  /\ UNCHANGED keyTasks

\* the metadata call rejects: the await in analyzeTextureMetadata is outside its
\* try block, so the rejection reaches the catch block of processAllMaps
MetadataRejects(r) ==
  /\ runs[r].pc = "meta"
  /\ \E message \in ServiceErrors : CatchProcessAllMaps(r, message, "metadata failed")
  /\ UNCHANGED <<maps, settings, prompt>>
  /\ UNCHANGED genVars
  /\ UNCHANGED keyTasks

\* a variant of PublishedMaps that takes the fourth and fifth values of Promise.all
\* in the wrong order (height for ao, ao for height)
PublishedMapsSwapped(resolved, albedoUrl, metadata) ==
  [m \in MapType |->
     IF m = "albedo" THEN albedoUrl
     ELSE IF m \notin resolved THEN Null
     ELSE GeneratorResult(IF m = "ao" THEN "height" ELSE IF m = "height" THEN "ao" ELSE m,
                          albedoUrl, metadata)]

\* a variant of PublishedMaps that merges the five derived maps into the previous
\* state and keeps an albedo already published
PublishedMapsKeepingAlbedo(resolved, albedoUrl, metadata) ==
  [m \in MapType |->
     IF m = "albedo" THEN (IF maps.albedo = Null THEN albedoUrl ELSE maps.albedo)
     ELSE IF m \in resolved THEN GeneratorResult(m, albedoUrl, metadata)
     ELSE Null]

\* the six maps processAllMaps publishes from the generators' values: the albedo
\* itself, and for each generator the value of its promise
PublishedMaps(resolved, albedoUrl, metadata) ==
  [m \in MapType |->
     IF m = "albedo" THEN albedoUrl
     ELSE IF m \in resolved THEN GeneratorResult(m, albedoUrl, metadata)
     ELSE Null]

\* a variant of GeneratorRejects that publishes the maps generated so far
GeneratorRejectsPublishing(r, g) ==
  /\ runs[r].pc = "gens"
  /\ g \notin runs[r].resolved
  /\ maps' = PublishedMaps(runs[r].resolved, runs[r].albedo, runs[r].metadata)
  /\ CatchProcessAllMaps(r, "", "generator failed")
  /\ UNCHANGED <<settings, prompt>>
  /\ UNCHANGED genVars
  /\ UNCHANGED keyTasks

\* generator g of run r rejects: its Image fires error (the albedo does not
\* decode; the reason is an event, without message), or its canvas gives no 2d
\* context (Error("Canvas context failed")).  Promise.all rejects with it,
\* whatever the other generators have done
GeneratorRejects(r, g) ==
  /\ runs[r].pc = "gens"
  /\ g \notin runs[r].resolved
  /\ CatchProcessAllMaps(r,
       IF Decodes(runs[r].albedo)
         THEN "Canvas context failed"
         ELSE "",
       "generator failed")
  /\ UNCHANGED <<maps, settings, prompt>>
  /\ UNCHANGED genVars
  /\ UNCHANGED keyTasks

\* a variant of GeneratorResolves in which generateMetalnessMap, which never draws
\* the image, does not wait for it to load
GeneratorResolvesUnloaded(r, g) ==
  /\ runs[r].pc = "gens"
  /\ g = "metalness"
  /\ g \notin runs[r].resolved
  /\ Cardinality(runs[r].resolved) < Cardinality(Generators) - 1
  /\ runs' = [runs EXCEPT ![r].resolved = runs[r].resolved \cup {g}]
  /\ UNCHANGED <<maps, settings, prompt, isGenerating, error, showKeyPrompt>>
  /\ UNCHANGED genVars
  /\ UNCHANGED keyTasks

\* generator g of run r resolves with its map; with the last of the five,
\* Promise.all resolves and processAllMaps publishes
GeneratorResolves(r, g) ==
  /\ runs[r].pc = "gens"
  /\ g \notin runs[r].resolved
  /\ Decodes(runs[r].albedo)
  /\ LET resolved == runs[r].resolved \cup {g}
     IN IF resolved = Generators
          THEN /\ maps' = PublishedMaps(resolved, runs[r].albedo, runs[r].metadata)
               /\ settings' =
                    [settings EXCEPT
                       !.roughnessIntensity =
                          NumberOr(runs[r].metadata.suggestedRoughness, 60),
                       !.metalnessIntensity =
                          NumberOr(runs[r].metadata.suggestedMetalness, 0)]
               /\ isGenerating' = FALSE
               /\ runs' = [runs EXCEPT ![r] = Finished("published")]
               /\ UNCHANGED error
          ELSE /\ runs' = [runs EXCEPT ![r].resolved = resolved]
               /\ UNCHANGED <<maps, settings, isGenerating, error>>
  /\ UNCHANGED <<prompt, showKeyPrompt>>
  /\ UNCHANGED genVars
  /\ UNCHANGED keyTasks

\* the effect of the first render: checkKey up to its return or its await.  A
\* usable API_KEY hides the modal; without one, a missing bridge (or one whose
\* call throws) shows it, and a bridge leaves hasSelectedApiKey() pending
checkKey ==
  /\ keyTasks.checkKey = "mounted"
  /\ \E outcome \in {"env key", "no bridge", "bridge"} :
       CASE outcome = "env key" ->
              /\ showKeyPrompt' = FALSE
              /\ keyTasks' = [keyTasks EXCEPT !.checkKey = "settled"]
         [] outcome = "no bridge" ->
              /\ showKeyPrompt' = TRUE
              /\ keyTasks' = [keyTasks EXCEPT !.checkKey = "settled"]
         [] outcome = "bridge" ->
              /\ UNCHANGED showKeyPrompt
              /\ keyTasks' = [keyTasks EXCEPT !.checkKey = "awaiting"]
  /\ UNCHANGED <<maps, settings, prompt, isGenerating, error, runs>>
  /\ UNCHANGED genVars

\* hasSelectedApiKey() settles: setShowKeyPrompt(!hasKey), or true from the catch
KeyCheckSettles ==
  /\ keyTasks.checkKey = "awaiting"
  /\ \E outcome \in {"has key", "no key", "rejects"} :
       showKeyPrompt' = (outcome # "has key")
  /\ keyTasks' = [keyTasks EXCEPT !.checkKey = "settled"]
  /\ UNCHANGED <<maps, settings, prompt, isGenerating, error, runs>>
  /\ UNCHANGED genVars

\* the key modal's button, up to the handler's await: openSelectKey() is pending,
\* the bridge is absent, or the call throws
handleOpenKeySelector ==
  /\ showKeyPrompt
  /\ \E outcome \in {"pending", "unavailable", "throws"} :
       CASE outcome = "pending" ->
              /\ keyTasks.selectors < MaxSelectors
              /\ keyTasks' = [keyTasks EXCEPT !.selectors = keyTasks.selectors + 1]
              /\ UNCHANGED error
         [] outcome = "unavailable" ->
              /\ error' = "Platform selector unavailable. Please add a new API_KEY to your Vercel/Local environment variables."
              /\ UNCHANGED keyTasks
         [] outcome = "throws" -> UNCHANGED <<error, keyTasks>>
  /\ UNCHANGED <<maps, settings, prompt, isGenerating, showKeyPrompt, runs>>
  /\ UNCHANGED genVars

\* openSelectKey() settles: resolved, the handler hides the modal; rejected, it
\* only logs
KeySelectorSettles ==
  /\ keyTasks.selectors > 0
  /\ keyTasks' = [keyTasks EXCEPT !.selectors = keyTasks.selectors - 1]
  /\ \E outcome \in {"resolves", "rejects"} :
       IF outcome = "resolves" THEN showKeyPrompt' = FALSE ELSE UNCHANGED showKeyPrompt
  /\ UNCHANGED <<maps, settings, prompt, isGenerating, error, runs>>
  /\ UNCHANGED genVars

\* the change event of the Smoothness slider
ChangeSmoothness(v) ==
  /\ Mounted
  /\ settings' = [settings EXCEPT !.roughnessIntensity = v]
  /\ UNCHANGED <<maps, prompt, isGenerating, error, showKeyPrompt, runs>>
  /\ UNCHANGED genVars
  /\ UNCHANGED keyTasks

\* the close button of the error toast
DismissError ==
  /\ error # NoError
  /\ error' = NoError
  /\ UNCHANGED <<maps, settings, prompt, isGenerating, showKeyPrompt, runs>>
  /\ UNCHANGED genVars
  /\ UNCHANGED keyTasks

Next ==
  \/ handleFileUpload
  \/ ClickGenerate
  \/ \E p \in {PRESETS[k] : k \in 1..Len(PRESETS)} : ClickPreset(p)
  \/ \E p \in TypedPrompts : EditPrompt(p)
  \/ \E v \in SmoothnessValues : ChangeSmoothness(v)
  \/ checkKey
  \/ KeyCheckSettles
  \/ handleOpenKeySelector
  \/ KeySelectorSettles
  \/ DismissError
  \/ \E r \in 1..MaxRuns :
       \/ ReaderLoads(r)
       \/ BaseTextureResolves(r)
       \/ BaseTextureRejects(r)
       \/ MetadataResolves(r)
       \/ MetadataRejects(r)
       \/ \E g \in Generators : GeneratorResolves(r, g) \/ GeneratorRejects(r, g)

Spec == Init /\ [][Next]_vars

(***************************************************************************)
(* The generators as operations: one call on one decoded input.  img is    *)
(* the input, out the returned map with the generator's kind and the       *)
(* parameter it was called with (NoOutput before the call).                *)
(***************************************************************************)
\* bounds of the inputs
MaxW == 2
MaxH == 2
MaxFlat == 4

\* two texel colours of unequal channels, and the extremes
Palette == {<<30, 60, 200, Opaque>>, <<250, 240, 100, Opaque>>}
FlatColors == Palette \cup {<<255, 255, 255, Opaque>>, <<0, 0, 0, Opaque>>}

\* opaque pixels reaching every channel sum 0..765
PixelSet ==
  {<<r, gb[1], gb[2], Opaque>> : r \in 0..255, gb \in {<<0, 0>>, <<255, 0>>, <<255, 255>>}}

\* normal strength in tenths (processAllMaps passes 2.5), roughness multiplier in
\* hundredths (0.72 is the fallback 0.6 * 1.2)
Strengths == {25, 10, 0, -20}
Multipliers == {72, 100, 50, 150}

ImagesOf(w, h, colors) ==
  {[width |-> w, height |-> h, data |-> d] : d \in [1..(w * h) -> colors]}

PaletteImages == UNION {ImagesOf(w, h, Palette) : w \in 1..MaxW, h \in 1..MaxH}

FlatImages ==
  {[width |-> n, height |-> n, data |-> [i \in 1..(n * n) |-> c]] :
     n \in 1..MaxFlat, c \in FlatColors}

PixelImages == {[width |-> 1, height |-> 1, data |-> <<p>>] : p \in PixelSet}

AppIdle ==
  /\ maps = [m \in MapType |-> Null]
  /\ settings = [roughnessIntensity |-> 80, metalnessIntensity |-> 20]
  /\ prompt = PRESETS[1]
  /\ isGenerating = FALSE
  /\ error = NoError
  /\ showKeyPrompt = FALSE
  /\ runs = [r \in 1..MaxRuns |-> IdleRun]
  /\ keyTasks = [checkKey |-> "settled", selectors |-> 0]

InitPixel == img \in PixelImages /\ out = NoOutput /\ AppIdle

InitImage == img \in PaletteImages \cup FlatImages /\ out = NoOutput /\ AppIdle

GenNormal ==
  /\ out = NoOutput
  /\ \E st \in Strengths :
       out' = [kind |-> "normal", arg |-> st,
               map |-> generateNormalMap(img, Lit(st, 10))]
  /\ UNCHANGED img
  /\ UNCHANGED appVars

GenRoughness ==
  /\ out = NoOutput
  /\ \E m \in Multipliers :
       out' = [kind |-> "roughness", arg |-> m,
               map |-> generateRoughnessMap(img, Lit(m, 100))]
  /\ UNCHANGED img
  /\ UNCHANGED appVars

GenMetalness ==
  /\ out = NoOutput
  /\ \E isMetal \in BOOLEAN :
       out' = [kind |-> "metalness", arg |-> isMetal,
               map |-> generateMetalnessMap(img, isMetal)]
  /\ UNCHANGED img
  /\ UNCHANGED appVars

GenAO ==
  /\ out = NoOutput
  /\ out' = [kind |-> "ao", arg |-> 0, map |-> generateAOMap(img)]
  /\ UNCHANGED img
  /\ UNCHANGED appVars

GenHeight ==
  /\ out = NoOutput
  /\ out' = [kind |-> "height", arg |-> 0, map |-> generateHeightMap(img)]
  /\ UNCHANGED img
  /\ UNCHANGED appVars

NextPixel == GenRoughness \/ GenAO \/ GenHeight

NextImage == GenNormal \/ GenRoughness \/ GenMetalness \/ GenAO \/ GenHeight

SpecPixel == InitPixel /\ [][NextPixel]_vars

SpecImage == InitImage /\ [][NextImage]_vars

(***************************************************************************)
(* Properties of the generators                                            *)
(***************************************************************************)
Dist(a, b) == IF a < b THEN b - a ELSE a - b

Clamp(v, lo, hi) == IF v < lo THEN lo ELSE IF v > hi THEN hi ELSE v

\* the gray value stored for pixel i of the returned map, and the channel sum of
\* the input pixel it was derived from
Stored(i) == out.map.data[i][1]
SumAt(i) == ChannelSum(img.data[i])
Pixels == 1..Len(img.data)

\* C1 (as stated): the AO generator stores 255 when avg >= 100 (channel sum >= 300)
\* and otherwise round(avg / 100 * 255) = round(17 * sum / 20), round being
\* Math.round (a half goes up).
AOStoresMathRound ==
  out.kind = "ao" =>
    \A i \in Pixels :
      Stored(i) = IF SumAt(i) >= 300 THEN 255 ELSE (17 * SumAt(i) + 10) \div 20

\* C1 (amended): the AO generator stores 255 when avg >= 100, and otherwise an
\* integer nearest to avg / 100 * 255 = 17 * sum / 20; where that number is an exact
\* half the stored byte is either neighbour (sum 10 stores 8, sum 50 stores 43).
AOStoresNearest ==
  out.kind = "ao" =>
    \A i \in Pixels :
      IF SumAt(i) >= 300
        THEN Stored(i) = 255
        ELSE Dist(20 * Stored(i), 17 * SumAt(i)) <= 10

AOHalfStoredDown ==
  /\ out.kind = "ao"
  /\ SumAt(1) = 10
  /\ Stored(1) = 8

\* C4: every generator returns a map of the input's width and height, holding
\* exactly width * height pixels.
OutputDimensions ==
  out.kind # "none" =>
    /\ out.map.width = img.width
    /\ out.map.height = img.height
    /\ DOMAIN out.map.data = 1..(img.width * img.height)

OutputOfOblongInput ==
  /\ out.kind = "normal"
  /\ img.width = 1
  /\ img.height = 2
  /\ Len(out.map.data) = 2

\* 65025 times the squared Euclidean norm of the vector decoded from a stored
\* normal texel: ((c / 255 - 0.5) * 2)^2 = (2 * c - 255)^2 / 65025
DecodedNormSq(p) ==
  (2 * p[1] - 255) * (2 * p[1] - 255) + (2 * p[2] - 255) * (2 * p[2] - 255)
    + (2 * p[3] - 255) * (2 * p[3] - 255)

UnitSq == 255 * 255

\* C5 (as stated): the vector decoded from every texel of the normal map has norm 1
\* within floating-point tolerance (its square within one millionth of 1).
NormalDecodesToUnitExactly ==
  out.kind = "normal" =>
    \A i \in Pixels :
      Dist(DecodedNormSq(out.map.data[i]), UnitSq) * 1000000 <= UnitSq

\* C5 (amended): the vector decoded from every texel of the normal map has norm 1
\* within the error of the 8-bit encoding: each channel is off by at most 1/255, so
\* the squared norm is within 1.4 percent of 1 (and never 1 itself).
NormalDecodesToUnitQuantised ==
  out.kind = "normal" =>
    \A i \in Pixels :
      /\ Dist(DecodedNormSq(out.map.data[i]), UnitSq) * 1000 <= 14 * UnitSq
      /\ DecodedNormSq(out.map.data[i]) # UnitSq

TiltedNormalStored ==
  /\ out.kind = "normal"
  /\ out.arg = 25
  /\ \E i \in Pixels : out.map.data[i][1] # 128 /\ out.map.data[i][3] < 255

IsFlat(image) == \A i \in 1..Len(image.data) : image.data[i] = image.data[1]

\* C6: for an input whose pixels all have one colour, whatever the strength, the
\* normal map holds (128, 128, 255, 255) at every pixel, borders and corners included.
FlatInputFlatNormal ==
  (out.kind = "normal" /\ IsFlat(img)) =>
    \A i \in Pixels : out.map.data[i] = <<128, 128, 255, 255>>

FlatWhiteFourByFour ==
  /\ out.kind = "normal"
  /\ img.width = 4
  /\ img.height = 4
  /\ \A i \in Pixels : img.data[i] = <<255, 255, 255, Opaque>>
  /\ out.map.data[1] = <<128, 128, 255, 255>>
  /\ out.map.data[16] = <<128, 128, 255, 255>>

\* C7: the metalness map holds 255 in R, G and B of every pixel when isMetal is true
\* and 0 when it is false, whatever the colours of the input.
MetalnessUniform ==
  out.kind = "metalness" =>
    \A i \in Pixels :
      \A c \in 1..3 : out.map.data[i][c] = IF out.arg THEN 255 ELSE 0

NonMetalOverColours ==
  /\ out.kind = "metalness"
  /\ out.arg = FALSE
  /\ Len(img.data) = MaxW * MaxH
  /\ ~IsFlat(img)
  /\ \A i \in Pixels : out.map.data[i] = <<0, 0, 0, Opaque>>

\* C8: every pixel of a roughness, AO or height map has R = G = B.
GrayscaleOutput ==
  out.kind \in {"roughness", "ao", "height"} =>
    \A i \in Pixels :
      /\ out.map.data[i][1] = out.map.data[i][2]
      /\ out.map.data[i][2] = out.map.data[i][3]

GrayFromColouredInput ==
  /\ out.kind = "roughness"
  /\ \E i \in Pixels :
       /\ img.data[i][1] # img.data[i][2]
       /\ out.map.data[i][1] > 0
       /\ out.map.data[i][1] = out.map.data[i][3]

\* C9: the roughness generator stores, for channel sum s and multiplier m (out.arg
\* hundredths), the integer nearest to
\*   clamp((((255 - s/3) * m / 255 - 0.5) * 1.5 + 0.5) * 255, 0, 255),
\* which times 400 is clamp(2 * (765 - s) * out.arg - 25500, 0, 102000); the stored
\* value is within 0..255, and a white pixel with multiplier 1.0 stores 0.
RoughnessFormula ==
  out.kind = "roughness" =>
    \A i \in Pixels :
      /\ Dist(400 * Stored(i),
              Clamp(2 * (765 - SumAt(i)) * out.arg - 25500, 0, 102000)) <= 200
      /\ Stored(i) \in 0..255
      /\ (SumAt(i) = 765 /\ out.arg = 100) => Stored(i) = 0

RoughnessMidRange ==
  /\ out.kind = "roughness"
  /\ out.arg = 100
  /\ SumAt(1) = 300
  /\ Stored(1) = 169

\* C10: the height generator stores, for channel sum s, the integer nearest to
\*   clamp(((s/3 / 255 - 0.5) * 1.2 + 0.5) * 255, 0, 255),
\* which times 10 is clamp(4 * s - 255, 0, 2550); the stored value is within
\* 0..255, avg = 255 stores 255 and avg = 0 stores 0.
HeightFormula ==
  out.kind = "height" =>
    \A i \in Pixels :
      /\ Dist(10 * Stored(i), Clamp(4 * SumAt(i) - 255, 0, 2550)) <= 5
      /\ Stored(i) \in 0..255
      /\ SumAt(i) = 765 => Stored(i) = 255
      /\ SumAt(i) = 0 => Stored(i) = 0

HeightMidRange ==
  /\ out.kind = "height"
  /\ SumAt(1) = 303
  /\ Stored(1) = 96

(***************************************************************************)
(* Properties of the pipeline                                              *)

\* the coordinate of 0..size-1 nearest to v
NearestCoord(v, size) ==
  CHOOSE n \in 0..(size - 1) : \A m \in 0..(size - 1) : Dist(n, v) <= Dist(m, v)

\* the centres (x - 1, y), (x + 1, y), (x, y - 1), (x, y + 1) of hL, hR, hU, hD
Centres(x, y) == <<[x |-> x - 1, y |-> y], [x |-> x + 1, y |-> y],
                   [x |-> x, y |-> y - 1], [x |-> x, y |-> y + 1]>>

\* C13: for every pixel (x, y) of the image and each of hL, hR, hU, hD, every
\* coordinate getSmoothHeight reads lies in 0..W-1 by 0..H-1, the index computed from
\* it is an index of the buffer, and it is the coordinate of the image nearest to the
\* unclamped x + ox, y + oy (the near edge for one outside, never the far edge).
ClampedNeighbourSampling ==
  img.width > 0 =>
    \A x \in 0..(img.width - 1), y \in 0..(img.height - 1), h \in 1..4, k \in 1..9 :
      LET c == Centres(x, y)[h]
          s == SmoothSamples(img, c.x, c.y)[k]
      IN /\ s.nx \in 0..(img.width - 1)
         /\ s.ny \in 0..(img.height - 1)
         /\ s.nx + s.ny * img.width + 1 \in DOMAIN img.data
         /\ s.nx = NearestCoord(c.x + ((k - 1) \div 3) - 1, img.width)
         /\ s.ny = NearestCoord(c.y + ((k - 1) % 3) - 1, img.height)

\* a normal map derived from a 2 x 2 image whose columns differ: the reads two
\* columns outside took the near column, so the left border pixel is tilted
EdgeReadsTakeNearEdge ==
  /\ out.kind = "normal"
  /\ img.width = 2
  /\ img.height = 2
  /\ ChannelSum(img.data[1]) # ChannelSum(img.data[2])
  /\ out.map.data[1][1] # 128

(***************************************************************************)
Run == 1..MaxRuns

\* C2 (as stated): a run whose metadata analysis fails or returns malformed output
\* does not fail: from awaiting the metadata it goes on to the generators, and the
\* step sets no error.
MetadataFailureFallsBack ==
  [][\A r \in Run :
       (runs[r].pc = "meta" /\ runs'[r] # runs[r]) =>
         /\ runs'[r].pc = "gens"
         /\ error' = error]_vars

\* the state the rejected metadata call of an upload leaves: the run is over, an
\* error is shown and no map was published
MetadataRejectionSurfaced ==
  /\ runs[1] = Finished("metadata failed")
  /\ runs[2] = IdleRun
  /\ error = "Failed processing high-quality maps."
  /\ ~isGenerating
  /\ \A m \in MapType : maps[m] = Null

\* C3: a run one of whose generators fails ends there: the step leaves maps as it
\* was, sets the error and clears the busy flag, whichever generator failed and
\* whichever had resolved before; and maps changes only in the step in which the
\* last of a run's five generators resolves.
GeneratorFailureAborts ==
  [][/\ \A r \in Run :
          (runs[r].pc = "gens" /\ runs'[r] = Finished("generator failed")) =>
            /\ maps' = maps
            /\ error' # NoError
            /\ ~isGenerating'
     /\ maps' # maps =>
          \E r \in Run :
            /\ runs[r].pc = "gens"
            /\ Cardinality(runs[r].resolved) = Cardinality(Generators) - 1
            /\ runs'[r] = Finished("published")
            /\ \A g \in Generators : maps'[g] # Null]_vars

\* a generator failed on a decodable albedo (after others may have resolved), with
\* the maps of an earlier run still published
FailedAfterPublished ==
  /\ runs[1] = Finished("published")
  /\ runs[2] = Finished("generator failed")
  /\ error = "Canvas context failed"
  /\ maps.albedo \in UploadedFiles
  /\ maps.normal # Null

\* C11: whatever the order in which the five generators of a run resolve, the step
\* that publishes is the one in which the last of them resolves (the single join),
\* it publishes the run's albedo with, for each generator, the value of that
\* generator called alone on that albedo (GeneratorResult is CallGenerator,
\* tabulated), and a step in which an earlier generator of the run resolves
\* publishes nothing.
GeneratorsIndependent ==
  [][\A r \in Run :
       /\ (runs[r].pc = "gens" /\ runs'[r] = Finished("published")) =>
            /\ Cardinality(runs[r].resolved) = Cardinality(Generators) - 1
            /\ maps'.albedo = runs[r].albedo
            /\ \A g \in Generators :
                 maps'[g] = GeneratorResult(g, runs[r].albedo, runs[r].metadata)
       /\ (runs[r].pc = "gens" /\ runs'[r].pc = "gens"
             /\ runs'[r].resolved # runs[r].resolved) =>
            maps' = maps]_vars

\* the last two generators of the call order have resolved first in the second
\* run, while the maps of the first run are published
ResolvedOutOfCallOrder ==
  /\ runs[1] = Finished("published")
  /\ runs[2].pc = "gens"
  /\ runs[2].resolved = {"ao", "height"}
  /\ maps.albedo \in GeneratedTextures
  /\ maps.ao # Null
  /\ maps.ao # maps.height

\* the runs whose albedo no Image can decode, from the call of processAllMaps on
Undecodable(r) == runs[r].pc \in {"meta", "gens"} /\ ~Decodes(runs[r].albedo)

\* C12: a run on an albedo that does not decode never has a generator past its
\* loadImage (none resolves), never publishes, and when it ends it ends failed
\* with maps as it was and the error set; from the generators it ends with the
\* first error event, as "Failed processing high-quality maps.".
DecodeErrorAborts ==
  [][\A r \in Run :
       Undecodable(r) =>
         /\ runs'[r].pc = "gens" => runs'[r].resolved = {}
         /\ runs'[r] # Finished("published")
         /\ runs'[r].pc = "finished" =>
              /\ maps' = maps
              /\ error' # NoError
              /\ ~isGenerating'
         /\ (runs[r].pc = "gens" /\ runs'[r].pc = "finished") =>
              /\ runs'[r] = Finished("generator failed")
              /\ error' = "Failed processing high-quality maps."]_vars

\* an upload that does not decode has failed at the generators' loadImage, after
\* a run that published
DecodeFailureSurfaced ==
  /\ runs[1] = Finished("published")
  /\ runs[2] = Finished("generator failed")
  /\ error = "Failed processing high-quality maps."
  /\ ~isGenerating
  /\ maps.albedo \in GeneratedTextures

\* the runs between the first statement of handleGenerate or processAllMaps and
\* their last
InFlight == {r \in Run : runs[r].pc \in {"base", "meta", "gens"}}

\* C14 (as stated): isGenerating is true whenever some run is in flight, and false
\* when none is.
BusyFlagTracksInFlight == isGenerating <=> InFlight # {}

\* the part of C14 that no interleaving breaks: with no run in flight the flag is
\* false
IdleImpliesNotBusy == InFlight = {} => ~isGenerating

\* a run has ended and set the flag to false while the generators of another run
\* are still at work
BusyFlagDroppedEarly ==
  /\ runs[1].pc = "finished"
  /\ runs[2].pc = "gens"
  /\ ~isGenerating

\* C15: in every state maps is either null in all six fields or holds an albedo
\* together with the five maps the generators derive from that albedo, all with
\* the arguments of one run (one metadata).
PublishedMapsCoherent ==
  \/ \A m \in MapType : maps[m] = Null
  \/ /\ \A m \in MapType : maps[m] # Null
     /\ Decodes(maps.albedo)
     /\ \E metadata \in Metadatas :
          \A g \in Generators : maps[g] = GeneratorResult(g, maps.albedo, metadata)

\* both runs have published, the upload last: the maps of the generated texture
\* were replaced, all six at once
SecondPublicationReplacedFirst ==
  /\ runs[1] = Finished("published")
  /\ runs[2] = Finished("published")
  /\ maps.albedo \in UploadedFiles
  /\ maps.height.width = 2

\* C16 (as stated): a click on the button of preset p starts a run that calls
\* generateBaseTexture with p's prompt, whatever the prompt was before the click.
PresetGeneratesFromPreset ==
  [][\A i \in DOMAIN PRESETS :
       ClickPreset(PRESETS[i]) =>
         \E r \in Run : /\ runs[r] = IdleRun
                        /\ runs'[r] = [pc |-> "base", prompt |-> PRESETS[i]]]_vars

\* after a click on the second preset as the first user event: the prompt shown is
\* the second preset's, the texture requested is the first preset's
PresetRunUsesPreviousPrompt ==
  /\ prompt = PRESETS[2]
  /\ runs[1] = [pc |-> "base", prompt |-> PRESETS[1]]
  /\ runs[2] = IdleRun
  /\ isGenerating
====
